---- MODULE Spec2Model ----
(***************************************************************************)
(* State-machine model of KSHConverter.parse_chart_data (src/ksh2osu.py)   *)
(* and of the helpers it calls.  A chart is fed to the converter one line  *)
(* at a time; every text line is a sequence of one-character strings, so   *)
(* that strip / startswith / split / int / float are modelled by what they *)
(* do to the characters.                                                   *)
(*                                                                         *)
(* Numbers.  Python floats are modelled by integers: the tempo values of   *)
(* the input sets divide 60000, so 60000.0 / bpm and the measure duration  *)
(* are integers and current_time is always an integer.  The only           *)
(* non-integer quantity is start_time + line_idx * (duration / n); its     *)
(* truncation int(...) is computed exactly by TruncDiv.  For n <= 5 lines  *)
(* per measure the float value and the exact rational truncate alike (the  *)
(* exact value is an integer only when duration / n is exact in binary).   *)
(* float(text) yields the exact decimal fraction num / den of the text, so *)
(* that the truncation int(parsed_offset) of a fractional header offset is *)
(* visible.                                                                *)
(***************************************************************************)
EXTENDS Integers, Sequences, FiniteSets, TLC

VARIABLES
    four_key,           \* self.four_key
    custom_offset_ms,   \* self.custom_offset_ms
    meta,               \* the metadata mapping handed to parse_chart_data
    pc,                 \* position in parse_chart_data
    error,              \* exception that left parse_chart_data ("" = none)
    i,                  \* number of chart-body lines consumed (i - start_idx)
    at_end,             \* outcome of the test i < len(lines) that ended the measure
    current_bpm,
    beats_per_measure,
    start_time,
    current_time,
    timing_points,
    hit_objects,
    hold_state,
    measure_lines,
    measure_start_time,
    measure_bpm,
    measure_beats,
    line_idx,           \* loop index of process_measure_with_lookahead
    change_at,          \* history: None, or Some(k) when the first tempo or
                        \* time-signature change of the measure being collected
                        \* came after k note-data lines of that measure
    prev_had_notes,     \* history: the measure before the one being collected
                        \* contained a note-data line
    md_lines,           \* parse_ksh_metadata: its argument lines
    md_i,               \* parse_ksh_metadata: i
    md_meta,            \* parse_ksh_metadata: meta
    md_ret,             \* parse_ksh_metadata: None, or Some(<<meta, index>>) returned
    lane_call,          \* ksh_to_osu_lane: None, or the last call and its result
    x_call              \* lane_x_pos: None, or the last call and its result

\* the variables of parse_ksh_metadata and of a direct call of ksh_to_osu_lane
unit_vars == <<md_lines, md_i, md_meta, md_ret, lane_call, x_call>>

hist_vars == <<change_at, prev_had_notes>>

\* the variables of parse_chart_data
chart_vars == <<four_key, custom_offset_ms, meta, pc, error, i, at_end, current_bpm,
                beats_per_measure, start_time, current_time, timing_points,
                hit_objects, hold_state, measure_lines, measure_start_time,
                measure_bpm, measure_beats, line_idx>>

vars == <<four_key, custom_offset_ms, meta, pc, error, i, at_end, current_bpm,
          beats_per_measure, start_time, current_time, timing_points,
          hit_objects, hold_state, measure_lines, measure_start_time,
          measure_bpm, measure_beats, line_idx, hist_vars, unit_vars>>

(***************************************************************************)
(* Bounds of the model.                                                    *)
(***************************************************************************)
\* Number of chart-body lines (delimiters included) a chart may have.
MaxLines == 4

(***************************************************************************)
(* Python values.                                                          *)
(***************************************************************************)
\* None, and a present Optional value.
None == <<>>

Some(v) == <<v>>

(***************************************************************************)
(* Text: str methods on sequences of characters.                           *)
(***************************************************************************)
RECURSIVE LStrip(_)
LStrip(s) == IF s # <<>> /\ Head(s) = " " THEN LStrip(Tail(s)) ELSE s

RECURSIVE RStrip(_)
RStrip(s) ==
    IF s # <<>> /\ s[Len(s)] = " " THEN RStrip(SubSeq(s, 1, Len(s) - 1)) ELSE s

\* str.strip()
Strip(s) == RStrip(LStrip(s))

\* str.startswith(p)
StartsWith(s, p) == Len(s) >= Len(p) /\ SubSeq(s, 1, Len(p)) = p

\* c in s
Contains(s, c) == \E k \in 1..Len(s) : s[k] = c

\* s[n:]
Drop(s, n) == SubSeq(s, n + 1, Len(s))

\* position of the first c in s
IndexOf(s, c) == CHOOSE k \in 1..Len(s) : s[k] = c /\ \A j \in 1..(k - 1) : s[j] # c

\* str.split(c)
RECURSIVE Split(_, _)
Split(s, c) ==
    IF Contains(s, c)
    THEN <<SubSeq(s, 1, IndexOf(s, c) - 1)>> \o Split(Drop(s, IndexOf(s, c)), c)
    ELSE <<s>>

Digits == {"0", "1", "2", "3", "4", "5", "6", "7", "8", "9"}

DigitVal(c) ==
    CASE c = "0" -> 0 [] c = "1" -> 1 [] c = "2" -> 2 [] c = "3" -> 3
      [] c = "4" -> 4 [] c = "5" -> 5 [] c = "6" -> 6 [] c = "7" -> 7
      [] c = "8" -> 8 [] c = "9" -> 9

RECURSIVE DigitsVal(_)
DigitsVal(s) ==
    IF s = <<>> THEN 0
    ELSE 10 * DigitsVal(SubSeq(s, 1, Len(s) - 1)) + DigitVal(s[Len(s)])

\* int(raw): surrounding blanks stripped, an optional sign, one or more digits;
\* anything else raises ValueError (ok = FALSE).
ParseInt(raw) ==
    LET s    == Strip(raw)
        sign == s # <<>> /\ s[1] \in {"-", "+"}
        body == IF sign THEN Tail(s) ELSE s
    IN  IF body # <<>> /\ \A k \in 1..Len(body) : body[k] \in Digits
        THEN [ok |-> TRUE,
              val |-> IF sign /\ s[1] = "-" THEN 0 - DigitsVal(body) ELSE DigitsVal(body)]
        ELSE [ok |-> FALSE, val |-> 0]

RECURSIVE Pow10(_)
Pow10(n) == IF n = 0 THEN 1 ELSE 10 * Pow10(n - 1)

\* float(raw) on decimal literals: surrounding blanks stripped, an optional sign,
\* digits with at most one decimal point and at least one digit.  The value is the
\* exact fraction num / den; any other text raises ValueError (ok = FALSE).
\* Exponents, inf and nan are not part of the input sets.
ParseFloat(raw) ==
    LET s      == Strip(raw)
        sign   == s # <<>> /\ s[1] \in {"-", "+"}
        body   == IF sign THEN Tail(s) ELSE s
        dot    == Contains(body, ".")
        whole  == IF dot THEN SubSeq(body, 1, IndexOf(body, ".") - 1) ELSE body
        frac   == IF dot THEN Drop(body, IndexOf(body, ".")) ELSE <<>>
        digits == whole \o frac
    IN  IF digits # <<>> /\ \A k \in 1..Len(digits) : digits[k] \in Digits
        THEN [ok |-> TRUE,
              num |-> IF sign /\ s[1] = "-" THEN 0 - DigitsVal(digits)
                      ELSE DigitsVal(digits),
              den |-> Pow10(Len(frac))]
        ELSE [ok |-> FALSE, num |-> 0, den |-> 1]

\* a parsed tempo as a number of beats per minute: the tempo texts of the input
\* sets are whole numbers (den = 1)
Bpm(p) == p.num \div p.den

\* int(a / b) for b > 0: truncation toward zero.
TruncDiv(a, b) == IF a >= 0 THEN a \div b ELSE 0 - ((0 - a) \div b)

\* abs(x)
Abs(x) == IF x >= 0 THEN x ELSE 0 - x

\* min(a, b)
Min(a, b) == IF a <= b THEN a ELSE b

(***************************************************************************)
(* Converter configuration and lane mapping.                               *)
(***************************************************************************)
\* self.num_lanes
num_lanes == IF four_key THEN 4 ELSE 6

\* the 4-column branch without its effect-lane test
ksh_to_osu_lane_fx_kept(is_fx, idx) ==
    IF four_key
    THEN Some(Min(idx, 3))
    ELSE IF is_fx
         THEN (IF idx = 0 THEN Some(0) ELSE Some(5))
         ELSE Some(1 + Min(idx, 3))

\* the mapping without min(idx, 3)
ksh_to_osu_lane_unclamped(is_fx, idx) ==
    IF four_key
    THEN IF is_fx THEN None ELSE Some(idx)
    ELSE IF is_fx
         THEN (IF idx = 0 THEN Some(0) ELSE Some(5))
         ELSE Some(1 + idx)

\* ksh_to_osu_lane(is_fx, idx): None, or the destination column.
ksh_to_osu_lane(is_fx, idx) ==
    IF four_key
    THEN IF is_fx THEN None ELSE Some(Min(idx, 3))
    ELSE IF is_fx
         THEN (IF idx = 0 THEN Some(0) ELSE Some(5))
         ELSE Some(1 + Min(idx, 3))

\* the left edge of the column instead of its centre
lane_x_pos_left_edge(lane_idx) ==
    (2 * lane_idx * 512 + num_lanes) \div (2 * num_lanes)

\* lane_x_pos(lane_idx) = int(round(lane_idx * (512 / n) + (512 / n) * 0.5))
\*                      = round((2 * lane_idx + 1) * 256 / n);
\* no column of a 4- or 6-column layout lands on a rounding tie.
lane_x_pos(lane_idx) ==
    ((2 * lane_idx + 1) * 512 + num_lanes) \div (2 * num_lanes)

(***************************************************************************)
(* Output records.                                                         *)
(***************************************************************************)
\* f"{time},{ms_per_beat:.6f},4,1,0,100,1,0"
TimingPoint(time, ms_per_beat) ==
    [time |-> time, ms_per_beat |-> ms_per_beat, meter |-> 4, sample_set |-> 1,
     sample_index |-> 0, volume |-> 100, uninherited |-> 1, effects |-> 0]

\* f"{x},192,{time},1,0,0:0:0:0:"
NormalNote(x, time) ==
    [x |-> x, y |-> 192, time |-> time, type |-> 1, hit_sound |-> 0,
     extra |-> <<0, 0, 0, 0>>]

\* f"{x},192,{start_time},128,0,{end_time}"
HoldNote(x, hold_start, hold_end) ==
    [x |-> x, y |-> 192, time |-> hold_start, type |-> 128, hit_sound |-> 0,
     extra |-> <<hold_end>>]

(***************************************************************************)
(* Note rules.  Each returns the hold-state table and the event list as    *)
(* the Python method leaves them.                                          *)
(***************************************************************************)
NoteState(hs, ho) == [hold_state |-> hs, hit_objects |-> ho]

\* the button rule with '2' storing the line time whether or not a hold is open
process_bt_note_restart(char, ksh_idx, time, hs, ho) ==
    LET osu_lane == ksh_to_osu_lane(FALSE, ksh_idx)
    IN  IF osu_lane = None THEN NoteState(hs, ho)
        ELSE
        LET lane == osu_lane[1]
            x    == lane_x_pos(lane)
        IN  IF char = "1" THEN
                IF hs[lane] # None
                THEN NoteState([hs EXCEPT ![lane] = None],
                               ho \o <<HoldNote(x, hs[lane][1], time), NormalNote(x, time)>>)
                ELSE NoteState(hs, Append(ho, NormalNote(x, time)))
            ELSE IF char = "2" THEN
                NoteState([hs EXCEPT ![lane] = Some(time)], ho)
            ELSE IF char = "0" \/ char = " " THEN
                IF hs[lane] # None
                THEN NoteState([hs EXCEPT ![lane] = None],
                               Append(ho, HoldNote(x, hs[lane][1], time)))
                ELSE NoteState(hs, ho)
            ELSE NoteState(hs, ho)

\* the button rule emitting the tap of '1' before the hold it closes
process_bt_note_tap_first(char, ksh_idx, time, hs, ho) ==
    LET osu_lane == ksh_to_osu_lane(FALSE, ksh_idx)
    IN  IF osu_lane = None THEN NoteState(hs, ho)
        ELSE
        LET lane == osu_lane[1]
            x    == lane_x_pos(lane)
        IN  IF char = "1" THEN
                IF hs[lane] # None
                THEN NoteState([hs EXCEPT ![lane] = None],
                               ho \o <<NormalNote(x, time), HoldNote(x, hs[lane][1], time)>>)
                ELSE NoteState(hs, Append(ho, NormalNote(x, time)))
            ELSE IF char = "2" THEN
                IF hs[lane] = None
                THEN NoteState([hs EXCEPT ![lane] = Some(time)], ho)
                ELSE NoteState(hs, ho)
            ELSE IF char = "0" \/ char = " " THEN
                IF hs[lane] # None
                THEN NoteState([hs EXCEPT ![lane] = None],
                               Append(ho, HoldNote(x, hs[lane][1], time)))
                ELSE NoteState(hs, ho)
            ELSE NoteState(hs, ho)

\* process_bt_note(char, ksh_idx, time, hold_state, hit_objects)
process_bt_note(char, ksh_idx, time, hs, ho) ==
    LET osu_lane == ksh_to_osu_lane(FALSE, ksh_idx)
    IN  IF osu_lane = None THEN NoteState(hs, ho)
        ELSE
        LET lane == osu_lane[1]
            x    == lane_x_pos(lane)
        IN  IF char = "1" THEN
                IF hs[lane] # None
                THEN NoteState([hs EXCEPT ![lane] = None],
                               ho \o <<HoldNote(x, hs[lane][1], time), NormalNote(x, time)>>)
                ELSE NoteState(hs, Append(ho, NormalNote(x, time)))
            ELSE IF char = "2" THEN
                IF hs[lane] = None
                THEN NoteState([hs EXCEPT ![lane] = Some(time)], ho)
                ELSE NoteState(hs, ho)
            ELSE IF char = "0" \/ char = " " THEN
                IF hs[lane] # None
                THEN NoteState([hs EXCEPT ![lane] = None],
                               Append(ho, HoldNote(x, hs[lane][1], time)))
                ELSE NoteState(hs, ho)
            ELSE NoteState(hs, ho)

\* the effect rule written with the button digits ('1' tap, '2' hold)
process_fx_note_bt_digits(char, ksh_idx, time, hs, ho) ==
    LET osu_lane == ksh_to_osu_lane(TRUE, ksh_idx)
    IN  IF osu_lane = None THEN NoteState(hs, ho)
        ELSE
        LET lane == osu_lane[1]
            x    == lane_x_pos(lane)
        IN  IF char = "1" THEN
                IF hs[lane] # None
                THEN NoteState([hs EXCEPT ![lane] = None],
                               ho \o <<HoldNote(x, hs[lane][1], time), NormalNote(x, time)>>)
                ELSE NoteState(hs, Append(ho, NormalNote(x, time)))
            ELSE IF char = "2" THEN
                IF hs[lane] = None
                THEN NoteState([hs EXCEPT ![lane] = Some(time)], ho)
                ELSE NoteState(hs, ho)
            ELSE IF char = "0" \/ char = " " THEN
                IF hs[lane] # None
                THEN NoteState([hs EXCEPT ![lane] = None],
                               Append(ho, HoldNote(x, hs[lane][1], time)))
                ELSE NoteState(hs, ho)
            ELSE NoteState(hs, ho)

\* process_fx_note(char, ksh_idx, time, hold_state, hit_objects)
process_fx_note(char, ksh_idx, time, hs, ho) ==
    LET osu_lane == ksh_to_osu_lane(TRUE, ksh_idx)
    IN  IF osu_lane = None THEN NoteState(hs, ho)
        ELSE
        LET lane == osu_lane[1]
            x    == lane_x_pos(lane)
        IN  IF char = "2" THEN
                IF hs[lane] # None
                THEN NoteState([hs EXCEPT ![lane] = None],
                               ho \o <<HoldNote(x, hs[lane][1], time), NormalNote(x, time)>>)
                ELSE NoteState(hs, Append(ho, NormalNote(x, time)))
            ELSE IF char = "1" THEN
                IF hs[lane] = None
                THEN NoteState([hs EXCEPT ![lane] = Some(time)], ho)
                ELSE NoteState(hs, ho)
            ELSE IF char = "0" \/ char = " " THEN
                IF hs[lane] # None
                THEN NoteState([hs EXCEPT ![lane] = None],
                               Append(ho, HoldNote(x, hs[lane][1], time)))
                ELSE NoteState(hs, ho)
            ELSE NoteState(hs, ho)

\* parts[0] of line.split('|')
BtPart(line) == Split(line, "|")[1]

\* parts[1] if len(parts) > 1 else ''
FxPart(line) == IF Len(Split(line, "|")) > 1 THEN Split(line, "|")[2] ELSE <<>>

\* for bt_idx, char in enumerate(bt_part): stop at bt_idx >= 4
RECURSIVE process_bt_part(_, _, _, _)
process_bt_part(bt_part, bt_idx, time, st) ==
    IF bt_idx >= Len(bt_part) \/ bt_idx >= 4 THEN st
    ELSE process_bt_part(bt_part, bt_idx + 1, time,
             process_bt_note(bt_part[bt_idx + 1], bt_idx, time,
                             st.hold_state, st.hit_objects))

\* for fx_idx, char in enumerate(fx_part): stop at fx_idx >= 2
RECURSIVE process_fx_part(_, _, _, _)
process_fx_part(fx_part, fx_idx, time, st) ==
    IF fx_idx >= Len(fx_part) \/ fx_idx >= 2 THEN st
    ELSE process_fx_part(fx_part, fx_idx + 1, time,
             process_fx_note(fx_part[fx_idx + 1], fx_idx, time,
                             st.hold_state, st.hit_objects))

\* The body of the line loop of process_measure_with_lookahead: the button
\* segment, then the effect segment, of one note-data line at line_time.
process_line(line, line_time, hs, ho) ==
    process_fx_part(FxPart(line), 0, line_time,
        process_bt_part(BtPart(line), 0, line_time, NoteState(hs, ho)))

\* measure_duration = (60000.0 / bpm) * beats_per_measure
MeasureDuration(bpm, beats) == (60000 \div bpm) * beats

\* every line one slot late: (line_idx + 1) * line_duration
LineTime_one_late(start, idx, duration, n) ==
    TruncDiv(start * n + (idx + 1) * duration, n)

\* line_time = int(start_time + line_idx * (measure_duration / len(note_lines)))
LineTime(start, idx, duration, n) == TruncDiv(start * n + idx * duration, n)

\* One column of a boundary check: close the hold of osu_lane at measure_end_time
\* when char is one of closing.
CrossCheckLane(osu_lane, char, closing, measure_end_time, st) ==
    IF osu_lane = None THEN st
    ELSE IF st.hold_state[osu_lane[1]] # None /\ char \in closing
         THEN NoteState([st.hold_state EXCEPT ![osu_lane[1]] = None],
                        Append(st.hit_objects,
                               HoldNote(lane_x_pos(osu_lane[1]),
                                        st.hold_state[osu_lane[1]][1], measure_end_time)))
         ELSE st

RECURSIVE CrossCheckBt(_, _, _, _)
CrossCheckBt(bt_part, bt_idx, measure_end_time, st) ==
    IF bt_idx >= Len(bt_part) \/ bt_idx >= 4 THEN st
    ELSE CrossCheckBt(bt_part, bt_idx + 1, measure_end_time,
             CrossCheckLane(ksh_to_osu_lane(FALSE, bt_idx), bt_part[bt_idx + 1],
                            {"0", "1", " "}, measure_end_time, st))

RECURSIVE CrossCheckFx(_, _, _, _)
CrossCheckFx(fx_part, fx_idx, measure_end_time, st) ==
    IF fx_idx >= Len(fx_part) \/ fx_idx >= 2 THEN st
    ELSE CrossCheckFx(fx_part, fx_idx + 1, measure_end_time,
             CrossCheckLane(ksh_to_osu_lane(TRUE, fx_idx), fx_part[fx_idx + 1],
                            {"0", "2", " "}, measure_end_time, st))

\* '|' in line
IsNoteLine(line) == Contains(line, "|")

\* check_cross_measure_holds(hold_state, hit_objects, next_measure_data, measure_end_time)
check_cross_measure_holds(hs, ho, next_measure_data, measure_end_time) ==
    LET note_lines == SelectSeq(next_measure_data, IsNoteLine)
    IN  IF next_measure_data = None \/ note_lines = <<>> THEN NoteState(hs, ho)
        ELSE CrossCheckFx(FxPart(note_lines[1]), 0, measure_end_time,
                 CrossCheckBt(BtPart(note_lines[1]), 0, measure_end_time,
                              NoteState(hs, ho)))

\* process_measure: the next_measure_data it hands to process_measure_with_lookahead
process_measure_next_data == None

\* the closing loop writing the stored start time as end time
RECURSIVE CloseFrom_zero_length(_, _, _)
CloseFrom_zero_length(lane, final_time, st) ==
    IF lane >= num_lanes THEN st
    ELSE CloseFrom_zero_length(lane + 1, final_time,
             IF st.hold_state[lane] # None
             THEN NoteState([st.hold_state EXCEPT ![lane] = None],
                            Append(st.hit_objects,
                                   HoldNote(lane_x_pos(lane), st.hold_state[lane][1],
                                            st.hold_state[lane][1])))
             ELSE st)

\* close_remaining_holds(hold_state, hit_objects, final_time), lanes in the order
\* of the table (0 .. num_lanes - 1)
RECURSIVE CloseFrom(_, _, _)
CloseFrom(lane, final_time, st) ==
    IF lane >= num_lanes THEN st
    ELSE CloseFrom(lane + 1, final_time,
             IF st.hold_state[lane] # None
             THEN NoteState([st.hold_state EXCEPT ![lane] = None],
                            Append(st.hit_objects,
                                   HoldNote(lane_x_pos(lane), st.hold_state[lane][1],
                                            final_time)))
             ELSE st)

\* a loop over the columns that starts one column late
close_remaining_holds_skip_first(hs, ho, final_time) ==
    CloseFrom(1, final_time, NoteState(hs, ho))

close_remaining_holds(hs, ho, final_time) == CloseFrom(0, final_time, NoteState(hs, ho))

(***************************************************************************)
(* Inputs: the chart lines and header values the converter is run on.      *)
(***************************************************************************)
\* the measure delimiter
Delimiter == <<"-", "-">>

TempoLine(v) == <<"t", "=">> \o v

BeatLine(v) == <<"b", "e", "a", "t", "=">> \o v

\* note-data lines "<button segment>|<effect segment>"
NoteLines ==
    { <<"0", "|", "0">>, <<"1", "|", "0">>, <<"2", "|", "0">>,
      <<"0", "|", "1">>, <<"0", "|", "2">>,
      <<"0", "2", "|", " ", "|">> }

\* control, blank and other lines
OtherLines ==
    { <<" ">>,                                   \* blank after strip
      <<"f", "x", "-", "l", "=", "x">>,          \* fx-l= parameter line
      <<"a", "=", "b">>,                         \* some other key=value line
      <<"x">>,                                   \* neither control nor note data
      TempoLine(<<"2", "4", "0">>),
      TempoLine(<<"0">>),
      TempoLine(<<"x">>),
      BeatLine(<<"2">>),
      BeatLine(<<"-", "1", "/", "4">>),
      BeatLine(<<"/", "4">>) }

ChartLines == NoteLines \cup OtherLines \cup {Delimiter}

\* header mappings: offset -1500 ms and default tempo; an unparsable tempo
ChartMetas ==
    { [k \in {"o"} |-> <<"-", "1", "5", "0", "0">>],
      [k \in {"t"} |-> <<"x">>] }

\* manual offsets (--offset)
ChartOffsets == {250}

\* header offset texts (the value of o=), each with what float() makes of it
\* (the fraction num / den) and what int() makes of that (whole)
HeaderOffsetTable ==
    { [raw |-> <<>>,
       parses |-> FALSE, num |-> 0, den |-> 1, whole |-> 0],
      [raw |-> <<"0">>,
       parses |-> TRUE, num |-> 0, den |-> 1, whole |-> 0],
      [raw |-> <<"-", "1", "5", "0", "0">>,
       parses |-> TRUE, num |-> -1500, den |-> 1, whole |-> -1500],
      [raw |-> <<"-", "1", "0", "0", ".", "7">>,
       parses |-> TRUE, num |-> -1007, den |-> 10, whole |-> -100],
      [raw |-> <<"3", "0", "0", "0", "0">>,
       parses |-> TRUE, num |-> 30000, den |-> 1, whole |-> 30000],
      [raw |-> <<"-", "3", "0", "0", "0", "0">>,
       parses |-> TRUE, num |-> -30000, den |-> 1, whole |-> -30000],
      [raw |-> <<"3", "0", "0", "0", "0", ".", "5">>,
       parses |-> TRUE, num |-> 300005, den |-> 10, whole |-> 30000],
      [raw |-> <<"3", "0", "0", "0", "1">>,
       parses |-> TRUE, num |-> 30001, den |-> 1, whole |-> 30001],
      [raw |-> <<"-", "3", "0", "0", "0", "1">>,
       parses |-> TRUE, num |-> -30001, den |-> 1, whole |-> -30001],
      [raw |-> <<"x">>,
       parses |-> FALSE, num |-> 0, den |-> 1, whole |-> 0] }

\* header tempo texts (the value of t=)
HeaderTempos == { <<"2", "4", "0">>, <<"0">>, <<"x">> }

\* a mapping with the given Optional offset and tempo texts
MetaOf(o, t) ==
    [k \in (IF o = None THEN {} ELSE {"o"}) \cup (IF t = None THEN {} ELSE {"t"}) |->
        IF k = "o" THEN o[1] ELSE t[1]]

\* header mappings: every offset text or none, with every tempo text or none
HeaderMetas ==
    { MetaOf(o, t) : o \in {None} \cup { Some(c.raw) : c \in HeaderOffsetTable },
                     t \in {None} \cup { Some(v) : v \in HeaderTempos } }

\* manual offsets (--offset) of the header runs
HeaderOffsets == {-100, 0, 250}

(***************************************************************************)
(* parse_ksh_metadata: header lines and the mapping they are read into.    *)
(* The keys and values of this mapping are texts (sequences of characters).*)
(***************************************************************************)
\* meta = {}
EmptyMeta == [key \in {} |-> <<>>]

\* the byte-order mark U+FEFF, one character that strip() leaves in place
BOM == "BOM"

\* '=' in line and not line.startswith('#')
IsMetaLine(line) == Contains(line, "=") /\ ~StartsWith(line, <<"#">>)

\* key of line.split('=', 1), stripped, without a leading byte-order mark
MetaKey(line) ==
    LET key == Strip(SubSeq(line, 1, IndexOf(line, "=") - 1))
    IN  IF StartsWith(key, <<BOM>>) THEN Tail(key) ELSE key

\* value of line.split('=', 1), stripped
MetaValue(line) == Strip(Drop(line, IndexOf(line, "=")))

\* an assignment that keeps the value a key already has
MetaPut_keep_first(m, key, value) ==
    [k \in DOMAIN m \cup {key} |-> IF k \in DOMAIN m THEN m[k] ELSE value]

\* meta[key] = value
MetaPut(m, key, value) ==
    [k \in DOMAIN m \cup {key} |-> IF k = key THEN value ELSE m[k]]

\* header lines
HeaderLines ==
    { <<"-", "-", " ">>,                        \* the delimiter, with a blank
      <<"o", "=", "1">>,
      <<" ", "o", " ", "=", " ", "2">>,         \* the same key again, with blanks
      <<"x">>,                                  \* no '='
      <<"=", "1">>,                             \* empty key
      <<"#", "o", "=", "9">>,                   \* comment
      <<"a", "=", "b", "=", "c">>,              \* '=' inside the value
      <<BOM, "t", "=", "1">> }                  \* byte-order mark before the key

MaxHeaderLines == 3

RECURSIVE FilesOfLen(_)
FilesOfLen(n) ==
    IF n = 0 THEN { <<>> }
    ELSE { Append(f, l) : f \in FilesOfLen(n - 1), l \in HeaderLines }

\* the files handed to parse_ksh_metadata
HeaderFiles == UNION { FilesOfLen(n) : n \in 0..MaxHeaderLines }

(***************************************************************************)
(* The state machine.                                                      *)
(***************************************************************************)
InitWith(metas, offsets) ==
    /\ four_key \in BOOLEAN
    /\ custom_offset_ms \in offsets
    /\ meta \in metas
    /\ pc = "start"
    /\ error = ""
    /\ i = 0
    /\ at_end = FALSE
    /\ current_bpm = 0
    /\ beats_per_measure = 0
    /\ start_time = 0
    /\ current_time = 0
    /\ timing_points = <<>>
    /\ hit_objects = <<>>
    /\ hold_state = <<>>
    /\ measure_lines = <<>>
    /\ measure_start_time = 0
    /\ measure_bpm = 0
    /\ measure_beats = 0
    /\ line_idx = 0
    /\ change_at = None
    /\ prev_had_notes = FALSE

\* parse_ksh_metadata at its first line, of the file lines
InitMetadataWith(files) ==
    /\ md_lines \in files
    /\ md_i = 0
    /\ md_meta = EmptyMeta
    /\ md_ret = None
    /\ lane_call = None
    /\ x_call = None

Init == InitWith(ChartMetas, ChartOffsets) /\ InitMetadataWith({<<>>})

\* note_lines = [ln for ln in measure_lines if '|' in ln]
note_lines == SelectSeq(measure_lines, IsNoteLine)

\* An exception leaves parse_chart_data: the conversion is aborted.
Raise(exc) ==
    /\ pc' = "error"
    /\ error' = exc
    /\ UNCHANGED <<unit_vars, hist_vars,
                   four_key, custom_offset_ms, meta, i, at_end, current_bpm,
                   beats_per_measure, start_time, current_time, timing_points,
                   hit_objects, hold_state, measure_lines, measure_start_time,
                   measure_bpm, measure_beats, line_idx>>

\* the range test written with >=
ParsedOffset_clamp_at_limit ==
    LET raw_offset == IF "o" \in DOMAIN meta THEN meta["o"] ELSE <<"0">>
        p          == IF raw_offset = <<>> THEN [ok |-> TRUE, num |-> 0, den |-> 1]
                      ELSE ParseFloat(raw_offset)
    IN  IF p.ok /\ ~(Abs(p.num) >= 30000 * p.den) THEN p
        ELSE [ok |-> TRUE, num |-> 0, den |-> 1]

\* parsed_offset of lines 89-97, as the fraction num / den
ParsedOffset ==
    LET raw_offset == IF "o" \in DOMAIN meta THEN meta["o"] ELSE <<"0">>
        p          == IF raw_offset = <<>> THEN [ok |-> TRUE, num |-> 0, den |-> 1]
                      ELSE ParseFloat(raw_offset)
    IN  IF p.ok /\ ~(Abs(p.num) > 30000 * p.den) THEN p
        ELSE [ok |-> TRUE, num |-> 0, den |-> 1]

\* Lines 84-119: initial tempo, start time, first timing point, empty hold table,
\* entry into the first measure.
Begin ==
    /\ pc = "start"
    /\ LET t == IF "t" \in DOMAIN meta THEN ParseFloat(meta["t"])
                ELSE [ok |-> TRUE, num |-> 120, den |-> 1]
       IN  IF ~t.ok THEN Raise("ValueError")
           ELSE IF Bpm(t) = 0 THEN Raise("ZeroDivisionError")
           ELSE /\ current_bpm' = Bpm(t)
                /\ beats_per_measure' = 4
                /\ start_time' = TruncDiv(ParsedOffset.num, ParsedOffset.den)
                                    + custom_offset_ms
                /\ current_time' = start_time'
                /\ timing_points' = <<TimingPoint(start_time', 60000 \div Bpm(t))>>
                /\ hit_objects' = <<>>
                /\ hold_state' = [lane \in 0..(num_lanes - 1) |-> None]
                /\ measure_lines' = <<>>
                /\ measure_start_time' = current_time'
                /\ measure_bpm' = current_bpm'
                /\ measure_beats' = beats_per_measure'
                /\ pc' = "collect"
                /\ UNCHANGED <<unit_vars, hist_vars, four_key, custom_offset_ms,
                               meta, error, i, at_end, line_idx>>

\* what the collecting loop does with a stripped line that is no delimiter
LineKind(line) ==
    IF line = <<>> THEN "blank"
    ELSE IF StartsWith(line, <<"f", "x", "-", "l", "=">>)
            \/ StartsWith(line, <<"f", "x", "-", "r", "=">>) THEN "fx"
    ELSE IF StartsWith(line, <<"t", "=">>) THEN "tempo"
    ELSE IF StartsWith(line, <<"b", "e", "a", "t", "=">>) THEN "beat"
    ELSE IF Contains(line, "=") THEN "control"
    ELSE "data"

\* the collecting loop is at a line of kind k
Collecting(raw, k) ==
    /\ pc = "collect"
    /\ i < MaxLines
    /\ Strip(raw) # Delimiter
    /\ LineKind(Strip(raw)) = k

\* lines 126-131, 158-160: a blank line, an fx-l=/fx-r= line or another key=value
\* line is skipped
ReadSkipped(raw) ==
    /\ \/ Collecting(raw, "blank")
       \/ Collecting(raw, "fx")
       \/ Collecting(raw, "control")
    /\ i' = i + 1
    /\ UNCHANGED <<unit_vars, hist_vars,
                   four_key, custom_offset_ms, meta, pc, error, at_end, current_bpm,
                   beats_per_measure, start_time, current_time, timing_points,
                   hit_objects, hold_state, measure_lines, measure_start_time,
                   measure_bpm, measure_beats, line_idx>>

\* the tempo line without the test abs(new_bpm - current_bpm) > 0.001
ReadTempo_no_epsilon(raw) ==
    /\ Collecting(raw, "tempo")
    /\ LET new_bpm == ParseFloat(Drop(Strip(raw), 2))
       IN  IF new_bpm.ok
           THEN IF Bpm(new_bpm) = 0 THEN Raise("ZeroDivisionError")
                ELSE /\ current_bpm' = Bpm(new_bpm)
                     /\ timing_points' =
                            Append(timing_points,
                                   TimingPoint(current_time, 60000 \div Bpm(new_bpm)))
                     /\ i' = i + 1
                     /\ change_at' = IF change_at = None
                                      THEN Some(Len(note_lines)) ELSE change_at
                     /\ UNCHANGED <<unit_vars, prev_had_notes, four_key,
                                    custom_offset_ms, meta, pc, error, at_end,
                                    beats_per_measure, start_time, current_time,
                                    hit_objects, hold_state, measure_lines,
                                    measure_start_time, measure_bpm, measure_beats,
                                    line_idx>>
           ELSE /\ i' = i + 1
                /\ UNCHANGED <<unit_vars, hist_vars,
                               four_key, custom_offset_ms, meta, pc, error, at_end,
                               current_bpm, beats_per_measure, start_time, current_time,
                               timing_points, hit_objects, hold_state, measure_lines,
                               measure_start_time, measure_bpm, measure_beats, line_idx>>

\* lines 133-143: a tempo line
ReadTempo(raw) ==
    /\ Collecting(raw, "tempo")
    /\ LET new_bpm == ParseFloat(Drop(Strip(raw), 2))
       IN  IF new_bpm.ok /\ Abs(Bpm(new_bpm) - current_bpm) * 1000 > 1
           THEN IF Bpm(new_bpm) = 0 THEN Raise("ZeroDivisionError")
                ELSE /\ current_bpm' = Bpm(new_bpm)
                     /\ timing_points' =
                            Append(timing_points,
                                   TimingPoint(current_time, 60000 \div Bpm(new_bpm)))
                     /\ i' = i + 1
                     /\ change_at' = IF change_at = None
                                      THEN Some(Len(note_lines)) ELSE change_at
                     /\ UNCHANGED <<unit_vars, prev_had_notes, four_key,
                                    custom_offset_ms, meta, pc, error, at_end,
                                    beats_per_measure, start_time, current_time,
                                    hit_objects, hold_state, measure_lines,
                                    measure_start_time, measure_bpm, measure_beats,
                                    line_idx>>
           ELSE /\ i' = i + 1
                /\ UNCHANGED <<unit_vars, hist_vars,
                               four_key, custom_offset_ms, meta, pc, error, at_end,
                               current_bpm, beats_per_measure, start_time, current_time,
                               timing_points, hit_objects, hold_state, measure_lines,
                               measure_start_time, measure_bpm, measure_beats, line_idx>>

\* lines 145-156: a time-signature line
ReadBeat(raw) ==
    /\ Collecting(raw, "beat")
    /\ LET beat_str  == Drop(Strip(raw), 5)
           numerator == IF Contains(beat_str, "/")
                        THEN ParseInt(Split(beat_str, "/")[1])
                        ELSE ParseInt(beat_str)
       IN  beats_per_measure' = IF numerator.ok THEN numerator.val
                                ELSE beats_per_measure
    /\ change_at' = IF change_at = None /\ beats_per_measure' # beats_per_measure
                     THEN Some(Len(note_lines)) ELSE change_at
    /\ i' = i + 1
    /\ UNCHANGED <<unit_vars, prev_had_notes,
                   four_key, custom_offset_ms, meta, pc, error, at_end, current_bpm,
                   start_time, current_time, timing_points, hit_objects, hold_state,
                   measure_lines, measure_start_time, measure_bpm, measure_beats,
                   line_idx>>

\* line 162: any other line joins the measure
ReadData(raw) ==
    /\ Collecting(raw, "data")
    /\ measure_lines' = Append(measure_lines, Strip(raw))
    /\ i' = i + 1
    /\ UNCHANGED <<unit_vars, hist_vars,
                   four_key, custom_offset_ms, meta, pc, error, at_end, current_bpm,
                   beats_per_measure, start_time, current_time, timing_points,
                   hit_objects, hold_state, measure_start_time, measure_bpm,
                   measure_beats, line_idx>>

\* line 122: the collecting loop stops at a delimiter ...
ReadDelimiter(raw) ==
    /\ pc = "collect"
    /\ i < MaxLines
    /\ Strip(raw) = Delimiter
    /\ pc' = "process"
    /\ at_end' = FALSE
    /\ line_idx' = 0
    /\ UNCHANGED <<unit_vars, hist_vars,
                   four_key, custom_offset_ms, meta, error, i, current_bpm,
                   beats_per_measure, start_time, current_time, timing_points,
                   hit_objects, hold_state, measure_lines, measure_start_time,
                   measure_bpm, measure_beats>>

\* ... or at the end of the input
ReadEnd ==
    /\ pc = "collect"
    /\ pc' = "process"
    /\ at_end' = TRUE
    /\ line_idx' = 0
    /\ UNCHANGED <<unit_vars, hist_vars,
                   four_key, custom_offset_ms, meta, error, i, current_bpm,
                   beats_per_measure, start_time, current_time, timing_points,
                   hit_objects, hold_state, measure_lines, measure_start_time,
                   measure_bpm, measure_beats>>

\* lines 197-215: one iteration of the line loop of process_measure_with_lookahead,
\* called with (note_lines, measure_start_time, current_bpm, beats_per_measure)
ProcessLine ==
    /\ pc = "process"
    /\ line_idx < Len(note_lines)
    /\ LET line_time == LineTime(measure_start_time, line_idx,
                                 MeasureDuration(current_bpm, beats_per_measure),
                                 Len(note_lines))
           st == process_line(note_lines[line_idx + 1], line_time,
                              hold_state, hit_objects)
       IN  /\ hold_state' = st.hold_state
           /\ hit_objects' = st.hit_objects
    /\ line_idx' = line_idx + 1
    /\ UNCHANGED <<unit_vars, hist_vars,
                   four_key, custom_offset_ms, meta, pc, error, i, at_end, current_bpm,
                   beats_per_measure, start_time, current_time, timing_points,
                   measure_lines, measure_start_time, measure_bpm, measure_beats>>

\* lines 217-221 and 168: after the last line, the boundary check (only with
\* next_measure_data) and the measure's end time, which becomes current_time
FinishMeasure ==
    /\ pc = "process"
    /\ note_lines # <<>>
    /\ line_idx = Len(note_lines)
    /\ LET measure_end == measure_start_time
                            + MeasureDuration(current_bpm, beats_per_measure)
           st == IF process_measure_next_data # None
                 THEN check_cross_measure_holds(hold_state, hit_objects,
                                                process_measure_next_data, measure_end)
                 ELSE NoteState(hold_state, hit_objects)
       IN  /\ hold_state' = st.hold_state
           /\ hit_objects' = st.hit_objects
           /\ current_time' = measure_end
    /\ pc' = "next"
    /\ UNCHANGED <<unit_vars, hist_vars,
                   four_key, custom_offset_ms, meta, error, i, at_end, current_bpm,
                   beats_per_measure, start_time, timing_points, measure_lines,
                   measure_start_time, measure_bpm, measure_beats, line_idx>>

\* lines 172-175: a measure with lines but no note-data line advances the time
SkipEmptyMeasure ==
    /\ pc = "process"
    /\ measure_lines # <<>>
    /\ note_lines = <<>>
    /\ current_time' = current_time + MeasureDuration(current_bpm, beats_per_measure)
    /\ pc' = "next"
    /\ UNCHANGED <<unit_vars, hist_vars,
                   four_key, custom_offset_ms, meta, error, i, at_end, current_bpm,
                   beats_per_measure, start_time, timing_points, hit_objects,
                   hold_state, measure_lines, measure_start_time, measure_bpm,
                   measure_beats, line_idx>>

\* line 165: a measure without any collected line is passed over
SkipNoLines ==
    /\ pc = "process"
    /\ measure_lines = <<>>
    /\ pc' = "next"
    /\ UNCHANGED <<unit_vars, hist_vars,
                   four_key, custom_offset_ms, meta, error, i, at_end, current_bpm,
                   beats_per_measure, start_time, current_time, timing_points,
                   hit_objects, hold_state, measure_lines, measure_start_time,
                   measure_bpm, measure_beats, line_idx>>

\* lines 177-179 and 116-119: skip the delimiter and enter the next measure
NextMeasure ==
    /\ pc = "next"
    /\ ~at_end
    /\ i' = i + 1
    /\ measure_lines' = <<>>
    /\ measure_start_time' = current_time
    /\ measure_bpm' = current_bpm
    /\ measure_beats' = beats_per_measure
    /\ pc' = "collect"
    /\ change_at' = None
    /\ prev_had_notes' = (note_lines # <<>>)
    /\ UNCHANGED <<unit_vars,
                   four_key, custom_offset_ms, meta, error, at_end, current_bpm,
                   beats_per_measure, start_time, current_time, timing_points,
                   hit_objects, hold_state, line_idx>>

\* lines 181-184: force-close the open holds and return
Finish ==
    /\ pc = "next"
    /\ at_end
    /\ LET st == close_remaining_holds(hold_state, hit_objects, current_time)
       IN  /\ hold_state' = st.hold_state
           /\ hit_objects' = st.hit_objects
    /\ pc' = "done"
    /\ UNCHANGED <<unit_vars, hist_vars,
                   four_key, custom_offset_ms, meta, error, i, at_end, current_bpm,
                   beats_per_measure, start_time, current_time, timing_points,
                   measure_lines, measure_start_time, measure_bpm, measure_beats,
                   line_idx>>

Next ==
    \/ Begin
    \/ \E raw \in ChartLines : ReadSkipped(raw)
    \/ \E raw \in ChartLines : ReadTempo(raw)
    \/ \E raw \in ChartLines : ReadBeat(raw)
    \/ \E raw \in ChartLines : ReadData(raw)
    \/ \E raw \in ChartLines : ReadDelimiter(raw)
    \/ ReadEnd
    \/ ProcessLine
    \/ FinishMeasure
    \/ SkipEmptyMeasure
    \/ SkipNoLines
    \/ NextMeasure
    \/ Finish

Spec == Init /\ [][Next]_vars

\* The converter run on every header of HeaderMetas with an empty chart body.
InitHeader == InitWith(HeaderMetas, HeaderOffsets) /\ InitMetadataWith({<<>>})

NextHeader ==
    \/ Begin
    \/ ReadEnd
    \/ SkipNoLines
    \/ Finish

SpecHeader == InitHeader /\ [][NextHeader]_vars

(***************************************************************************)
(* ksh_to_osu_lane called directly, on every source index up to MaxIdx.    *)
(***************************************************************************)
MaxIdx == 15

\* one call ksh_to_osu_lane(is_fx, idx) on a converter of either mode
CallLane(is_fx, idx) ==
    /\ pc = "start"
    /\ lane_call' = Some([is_fx |-> is_fx, idx |-> idx,
                          result |-> ksh_to_osu_lane(is_fx, idx)])
    /\ UNCHANGED <<chart_vars, hist_vars, md_lines, md_i, md_meta, md_ret, x_call>>

NextLane == \E is_fx \in BOOLEAN, idx \in 0..MaxIdx : CallLane(is_fx, idx)

SpecLane == Init /\ [][NextLane]_vars

(***************************************************************************)
(* lane_x_pos called directly, on every column of the converter's layout,  *)
(* next to the calls of ksh_to_osu_lane.                                   *)
(***************************************************************************)
\* one call lane_x_pos(lane_idx)
CallX(lane_idx) ==
    /\ pc = "start"
    /\ x_call' = Some([lane_idx |-> lane_idx, x |-> lane_x_pos(lane_idx)])
    /\ UNCHANGED <<chart_vars, hist_vars, md_lines, md_i, md_meta, md_ret, lane_call>>

NextColumns ==
    \/ NextLane
    \/ \E lane_idx \in 0..(num_lanes - 1) : CallX(lane_idx)

SpecColumns == Init /\ [][NextColumns]_vars

(***************************************************************************)
(* parse_ksh_metadata run on every file of HeaderFiles.                    *)
(***************************************************************************)
InitMetadata == InitWith(ChartMetas, ChartOffsets) /\ InitMetadataWith(HeaderFiles)

\* the scan of parse_ksh_metadata is at a line that is no delimiter
Scanning ==
    /\ pc = "start"
    /\ md_ret = None
    /\ md_i < Len(md_lines)
    /\ Strip(md_lines[md_i + 1]) # Delimiter

\* lines 35-49: a line with '=' that is no comment enters the mapping
ScanEntry ==
    /\ Scanning
    /\ LET line == Strip(md_lines[md_i + 1])
       IN  /\ IsMetaLine(line)
           /\ md_meta' = MetaPut(md_meta, MetaKey(line), MetaValue(line))
    /\ md_i' = md_i + 1
    /\ UNCHANGED <<chart_vars, hist_vars, md_lines, md_ret, lane_call, x_call>>

\* lines 35-36, 49: any other line is passed over
ScanOther ==
    /\ Scanning
    /\ ~IsMetaLine(Strip(md_lines[md_i + 1]))
    /\ md_i' = md_i + 1
    /\ UNCHANGED <<chart_vars, hist_vars, md_lines, md_meta, md_ret, lane_call, x_call>>

\* lines 34, 51: the scan stops at the first delimiter and returns the index
\* after it
ReturnAtDelimiter ==
    /\ pc = "start"
    /\ md_ret = None
    /\ md_i < Len(md_lines)
    /\ Strip(md_lines[md_i + 1]) = Delimiter
    /\ md_ret' = Some(<<md_meta, md_i + 1>>)
    /\ UNCHANGED <<chart_vars, hist_vars, md_lines, md_i, md_meta, lane_call, x_call>>

\* lines 34, 51: without delimiter the scan stops at the end of the input
ReturnAtEnd ==
    /\ pc = "start"
    /\ md_ret = None
    /\ md_i >= Len(md_lines)
    /\ md_ret' = Some(<<md_meta, md_i>>)
    /\ UNCHANGED <<chart_vars, hist_vars, md_lines, md_i, md_meta, lane_call, x_call>>

NextMetadata ==
    \/ ScanEntry
    \/ ScanOther
    \/ ReturnAtDelimiter
    \/ ReturnAtEnd

SpecMetadata == InitMetadata /\ [][NextMetadata]_vars

(***************************************************************************)
(* Vocabulary of the properties.                                           *)
(***************************************************************************)
\* parse_chart_data is past its initialisation and has not been aborted
Running == pc \in {"collect", "process", "next", "done"}

IsHold(e) == e.type = 128

IsTap(e) == e.type = 1

HoldEnd(e) == e.extra[1]

\* the events a step appends to hit_objects
NewEvents == SubSeq(hit_objects', Len(hit_objects) + 1, Len(hit_objects'))

\* the events of evs that lie on column lane
OnLane(evs, lane) == SelectSeq(evs, LAMBDA e : e.x = lane_x_pos(lane))

\* the step about to be taken processes a note-data line
AtLine == pc = "process" /\ line_idx < Len(note_lines)

\* that line and its time
CurLine == note_lines[line_idx + 1]

CurTime ==
    LineTime(measure_start_time, line_idx,
             MeasureDuration(current_bpm, beats_per_measure), Len(note_lines))

(***************************************************************************)
(* C1.  When parse_chart_data returns, every column of the hold-state      *)
(* table is None, in 4-column and in 6-column mode.                        *)
(***************************************************************************)
C1_NoOpenHoldAtEnd ==
    pc = "done" =>
        /\ DOMAIN hold_state = 0..(num_lanes - 1)
        /\ \A lane \in DOMAIN hold_state : hold_state[lane] = None

\* the conversion returned after force-closing a hold that was still open
C1_Witness ==
    /\ pc = "done"
    /\ beats_per_measure > 0
    /\ hit_objects # <<>>
    /\ IsHold(hit_objects[Len(hit_objects)])
    /\ HoldEnd(hit_objects[Len(hit_objects)]) = current_time

(***************************************************************************)
(* C2.  Every emitted hold event has end time >= start time, and both are  *)
(* >= the global start time (header offset plus manual offset).            *)
(***************************************************************************)
C2_HoldWithinTimeline ==
    Running =>
        \A k \in 1..Len(hit_objects) :
            IsHold(hit_objects[k]) =>
                /\ HoldEnd(hit_objects[k]) >= hit_objects[k].time
                /\ hit_objects[k].time >= start_time
                /\ HoldEnd(hit_objects[k]) >= start_time

(***************************************************************************)
(* C3.  The event list is ordered by start time: every event starts at or  *)
(* after the event emitted before it.                                      *)
(***************************************************************************)
C3_EventsTimeOrdered ==
    \A k \in 2..Len(hit_objects) :
        hit_objects[k].time >= hit_objects[k - 1].time

(***************************************************************************)
(* Button and effect positions of the line about to be processed, and the  *)
(* column each one maps to.                                                *)
(***************************************************************************)
BtPositions == 1..Min(Len(BtPart(CurLine)), 4)

FxPositions == 1..Min(Len(FxPart(CurLine)), 2)

BtLane(k) == ksh_to_osu_lane(FALSE, k - 1)[1]

FxLane(k) == ksh_to_osu_lane(TRUE, k - 1)[1]

BtChar(k) == BtPart(CurLine)[k]

FxChar(k) == FxPart(CurLine)[k]

(***************************************************************************)
(* C4.  A button hold that is open at the end of a measure is closed by a  *)
(* '0' in the first note-data line of the next measure, and the emitted    *)
(* hold event ends at the boundary of the two measures: the start of the   *)
(* next measure, which is the previous measure's start plus its duration.  *)
(***************************************************************************)
\* the boundary: a processed measure ends at start + duration, and the measure
\* being collected or processed starts where the one before it ended
C4_Boundary ==
    /\ (pc = "next" /\ note_lines # <<>>) =>
           current_time = measure_start_time
                            + MeasureDuration(current_bpm, beats_per_measure)
    /\ pc \in {"collect", "process"} => measure_start_time = current_time

\* the first line of a measure closes an open button hold at the measure start
C4_FirstLineCloses ==
    (AtLine /\ line_idx = 0) =>
        \A k \in BtPositions :
            (BtChar(k) = "0" /\ hold_state[BtLane(k)] # None) =>
                /\ OnLane(NewEvents, BtLane(k)) =
                       <<HoldNote(lane_x_pos(BtLane(k)), hold_state[BtLane(k)][1],
                                  measure_start_time)>>
                /\ hold_state'[BtLane(k)] = None

\* C4: the hold closed by the '0' of the next measure's first line ends at the
\* measure boundary
C4_HoldClosesAtBoundary == [](C4_Boundary) /\ [][C4_FirstLineCloses]_vars

\* a hold begun in an earlier measure has just been closed at the measure start by
\* the '0' of the first of several note-data lines
C4_Witness ==
    /\ pc = "process"
    /\ line_idx = 1
    /\ Len(note_lines) >= 2
    /\ beats_per_measure > 0
    /\ BtPart(note_lines[1])[1] = "0"
    /\ \E k \in 1..Len(hit_objects) :
           /\ IsHold(hit_objects[k])
           /\ hit_objects[k].x = lane_x_pos(ksh_to_osu_lane(FALSE, 0)[1])
           /\ hit_objects[k].time < measure_start_time
           /\ HoldEnd(hit_objects[k]) = measure_start_time

(***************************************************************************)
(* C5.  A button hold that is open at the end of a measure stays open when *)
(* the next measure's first note-data line has '2' in its position: no     *)
(* event is emitted at the boundary or by that line and the stored start   *)
(* time is unchanged; exactly one hold event, with the stored start time,  *)
(* is emitted when a later '0', space or '1' on the column, or the end of  *)
(* the chart, is reached.                                                  *)
(***************************************************************************)
\* between the last line of a measure and the first line of the next, no step
\* touches the event list or the hold table
C5_NothingAtBoundary ==
    (Running /\ ~AtLine /\ ~(pc = "next" /\ at_end)) =>
        UNCHANGED <<hit_objects, hold_state>>

\* a '2' in the first line leaves an open hold as it is
C5_ContinuationKeepsHold ==
    (AtLine /\ line_idx = 0) =>
        \A k \in BtPositions :
            (BtChar(k) = "2" /\ hold_state[BtLane(k)] # None) =>
                /\ OnLane(NewEvents, BtLane(k)) = <<>>
                /\ hold_state'[BtLane(k)] = hold_state[BtLane(k)]

\* a '0', space or '1' emits exactly one hold event from the stored start time
C5_CloseEmitsOne ==
    AtLine =>
        \A k \in BtPositions :
            (BtChar(k) \in {"0", " ", "1"} /\ hold_state[BtLane(k)] # None) =>
                /\ OnLane(NewEvents, BtLane(k)) =
                       <<HoldNote(lane_x_pos(BtLane(k)), hold_state[BtLane(k)][1],
                                  CurTime)>>
                       \o (IF BtChar(k) = "1"
                           THEN <<NormalNote(lane_x_pos(BtLane(k)), CurTime)>>
                           ELSE <<>>)
                /\ hold_state'[BtLane(k)] = None

\* the end of the chart emits exactly one hold event per open hold
C5_EndEmitsOne ==
    (pc = "next" /\ at_end) =>
        \A lane \in DOMAIN hold_state :
            OnLane(NewEvents, lane) =
                IF hold_state[lane] # None
                THEN <<HoldNote(lane_x_pos(lane), hold_state[lane][1], current_time)>>
                ELSE <<>>

\* C5: a hold continued by '2' in the next measure's first line stays open with
\* its start time and yields exactly one hold event when it is closed later
C5_HoldContinuesAcrossBoundary ==
    [][/\ C5_NothingAtBoundary
       /\ C5_ContinuationKeepsHold
       /\ C5_CloseEmitsOne
       /\ C5_EndEmitsOne]_vars

\* a hold begun in an earlier measure went through a first line with '2' and was
\* closed by a later line of the measure
C5_Witness ==
    /\ pc = "process"
    /\ line_idx >= 2
    /\ beats_per_measure > 0
    /\ BtPart(note_lines[1])[1] = "2"
    /\ \E k \in 1..Len(hit_objects) :
           /\ IsHold(hit_objects[k])
           /\ hit_objects[k].x = lane_x_pos(ksh_to_osu_lane(FALSE, 0)[1])
           /\ hit_objects[k].time < measure_start_time
           /\ HoldEnd(hit_objects[k]) > measure_start_time

(***************************************************************************)
(* C6.  A tempo line that changes the tempo and comes after one or more    *)
(* note-data lines of its measure appends a Tempo Marker whose time is the *)
(* point of the measure where the line stands, not the measure's start: in *)
(* a measure of positive duration that point is later than the start.      *)
(***************************************************************************)
C6_TempoMarkerAtLinePosition ==
    [][(/\ pc = "collect"
        /\ Len(timing_points') = Len(timing_points) + 1
        /\ note_lines # <<>>
        /\ beats_per_measure > 0)
       => timing_points'[Len(timing_points')].time > measure_start_time]_vars

(***************************************************************************)
(* C7.  In 4-column mode the effect segment has no effect: whatever the    *)
(* character, the effect rule emits nothing and leaves the hold table      *)
(* alone, and a line is processed exactly as the same line with its effect *)
(* segment blanked.                                                        *)
(***************************************************************************)
AnyChars == {"0", "1", "2", " ", "x"}

\* the line with every effect character replaced by '0'
BlankFx(line) ==
    BtPart(line) \o <<"|">> \o [k \in 1..Len(FxPart(line)) |-> "0"]

\* C7: in 4-column mode the effect segment emits nothing and changes no hold state
C7_EffectIgnoredIn4K ==
    (four_key /\ Running) =>
        /\ \A c \in AnyChars : \A idx \in 0..1 :
               process_fx_note(c, idx, current_time, hold_state, hit_objects)
                   = NoteState(hold_state, hit_objects)
        /\ AtLine =>
               process_line(CurLine, CurTime, hold_state, hit_objects)
                   = process_line(BlankFx(CurLine), CurTime, hold_state, hit_objects)

\* in 4-column mode a line with an effect tap has been processed and nothing was
\* emitted
C7_Witness ==
    /\ four_key
    /\ pc = "process"
    /\ line_idx = 1
    /\ FxPart(note_lines[1]) = <<"2">>
    /\ hit_objects = <<>>
    /\ \A lane \in DOMAIN hold_state : hold_state[lane] = None

(***************************************************************************)
(* C8.  In 6-column mode, on a column without an open hold, button '1'     *)
(* emits one instantaneous event and button '2' opens a hold and emits     *)
(* nothing, while effect '2' emits one instantaneous event and effect '1'  *)
(* opens a hold and emits nothing; '0' or space in either segment closes   *)
(* an open hold of the column and does nothing otherwise.                  *)
(***************************************************************************)
\* what a tap, a hold start and an empty character do to column lane
C8_Tap(lane) ==
    /\ OnLane(NewEvents, lane) = <<NormalNote(lane_x_pos(lane), CurTime)>>
    /\ hold_state'[lane] = None

C8_Open(lane) ==
    /\ OnLane(NewEvents, lane) = <<>>
    /\ hold_state'[lane] = Some(CurTime)

C8_Empty(lane) ==
    /\ OnLane(NewEvents, lane) =
           IF hold_state[lane] # None
           THEN <<HoldNote(lane_x_pos(lane), hold_state[lane][1], CurTime)>>
           ELSE <<>>
    /\ hold_state'[lane] = None

C8_LineStep ==
    (AtLine /\ ~four_key) =>
        /\ \A k \in BtPositions :
               /\ (BtChar(k) = "1" /\ hold_state[BtLane(k)] = None) => C8_Tap(BtLane(k))
               /\ (BtChar(k) = "2" /\ hold_state[BtLane(k)] = None) => C8_Open(BtLane(k))
               /\ BtChar(k) \in {"0", " "} => C8_Empty(BtLane(k))
        /\ \A k \in FxPositions :
               /\ (FxChar(k) = "2" /\ hold_state[FxLane(k)] = None) => C8_Tap(FxLane(k))
               /\ (FxChar(k) = "1" /\ hold_state[FxLane(k)] = None) => C8_Open(FxLane(k))
               /\ FxChar(k) \in {"0", " "} => C8_Empty(FxLane(k))

\* a space is treated as '0' by both rules, on every position
C8_SpaceIsEmpty ==
    (Running /\ ~four_key) =>
        /\ \A idx \in 0..3 :
               process_bt_note(" ", idx, current_time, hold_state, hit_objects)
                   = process_bt_note("0", idx, current_time, hold_state, hit_objects)
        /\ \A idx \in 0..1 :
               process_fx_note(" ", idx, current_time, hold_state, hit_objects)
                   = process_fx_note("0", idx, current_time, hold_state, hit_objects)

\* C8: buttons tap on '1' and hold on '2', effects tap on '2' and hold on '1';
\* '0' and space close an open hold and do nothing otherwise
C8_InvertedDigits == [](C8_SpaceIsEmpty) /\ [][C8_LineStep]_vars

\* 6-column mode: button '1' has tapped and button '2' has held column 1, effect
\* '2' has tapped column 0 and effect '1' has opened a hold on it
C8_Witness ==
    /\ ~four_key
    /\ Running
    /\ hold_state[0] # None
    /\ \E k \in 1..Len(hit_objects) :
           IsTap(hit_objects[k]) /\ hit_objects[k].x = lane_x_pos(0)
    /\ \E k \in 1..Len(hit_objects) :
           IsTap(hit_objects[k]) /\ hit_objects[k].x = lane_x_pos(1)
    /\ \E k \in 1..Len(hit_objects) :
           IsHold(hit_objects[k]) /\ hit_objects[k].x = lane_x_pos(1)

(***************************************************************************)
(* C9.  An unparsable offset, tempo or time-signature value, in the header *)
(* or in a control line of the body, never aborts the conversion: no       *)
(* ValueError of int() or float() leaves parse_chart_data.                 *)
(***************************************************************************)
C9_UnparsableNeverAborts == ~(pc = "error" /\ error = "ValueError")

(***************************************************************************)
(* C10.  The initial time of the timeline and the time of the first Tempo  *)
(* Marker are the header offset plus the manual offset when the header     *)
(* offset parses and has magnitude <= 30000, and the manual offset alone   *)
(* when the header offset exceeds 30000 in magnitude, cannot be parsed or  *)
(* is missing.                                                             *)
(***************************************************************************)
\* the row of HeaderOffsetTable for the header's offset text; a header without
\* offset counts as offset 0
C10_Row ==
    IF "o" \in DOMAIN meta
    THEN CHOOSE c \in HeaderOffsetTable : c.raw = meta["o"]
    ELSE [raw |-> <<"0">>, parses |-> TRUE, num |-> 0, den |-> 1, whole |-> 0]

\* the offset parses and its magnitude is at most 30000
C10_InRange ==
    /\ C10_Row.parses
    /\ C10_Row.num <= 30000 * C10_Row.den
    /\ C10_Row.num >= (0 - 30000) * C10_Row.den

\* the times that show the initial time of the timeline are all t
C10_InitialTimeIs(t) ==
    /\ start_time = t
    /\ timing_points # <<>>
    /\ timing_points[1].time = t
    /\ (pc = "collect" /\ i = 0) => (current_time = t /\ measure_start_time = t)

\* C10 as stated: the initial time is exactly header offset + manual offset
\* (start_time = num / den + custom_offset_ms) when the offset is in range
C10_InitialTimeExact ==
    Running =>
        IF C10_InRange
        THEN /\ start_time * C10_Row.den
                  = C10_Row.num + custom_offset_ms * C10_Row.den
             /\ C10_InitialTimeIs(start_time)
        ELSE C10_InitialTimeIs(custom_offset_ms)

\* C10 as amended: the header offset enters truncated toward zero to a whole
\* number of milliseconds
C10_InitialTime ==
    Running =>
        IF C10_InRange
        THEN C10_InitialTimeIs(C10_Row.whole + custom_offset_ms)
        ELSE C10_InitialTimeIs(custom_offset_ms)

\* a fractional header offset of -100.7 entered as -100 next to a manual offset
\* of 250
C10_Witness ==
    /\ pc = "done"
    /\ "o" \in DOMAIN meta
    /\ meta["o"] = <<"-", "1", "0", "0", ".", "7">>
    /\ custom_offset_ms = 250
    /\ start_time = 150
    /\ timing_points[1].time = 150

(***************************************************************************)
(* C11.  ksh_to_osu_lane has these results for every source index >= 0:   *)
(* in 4-column mode no column for an effect source and min(i, 3) for       *)
(* button index i; in 6-column mode column 0 for effect index 0, column 5  *)
(* for every other effect index and 1 + min(i, 3) for button index i.      *)
(* Every returned column lies in 0 .. num_lanes - 1, no button source maps *)
(* to column 0 or 5 in 6-column mode, and the call changes nothing.        *)
(***************************************************************************)
\* min(k, 3), spelled out
C11_Clamp3(k) == IF k = 0 THEN 0 ELSE IF k = 1 THEN 1 ELSE IF k = 2 THEN 2 ELSE 3

C11_Results ==
    lane_call # None =>
        LET c == lane_call[1]
        IN  /\ c.idx >= 0
            /\ (four_key /\ c.is_fx) => c.result = None
            /\ (four_key /\ ~c.is_fx) => c.result = Some(C11_Clamp3(c.idx))
            /\ (~four_key /\ c.is_fx /\ c.idx = 0) => c.result = Some(0)
            /\ (~four_key /\ c.is_fx /\ c.idx # 0) => c.result = Some(5)
            /\ (~four_key /\ ~c.is_fx) => c.result = Some(1 + C11_Clamp3(c.idx))
            /\ c.result # None => c.result[1] \in 0..(num_lanes - 1)
            /\ (~four_key /\ ~c.is_fx) => c.result[1] \notin {0, 5}

\* a call leaves the converter as it was
C11_Pure == lane_call' # lane_call => UNCHANGED chart_vars

C11_LaneMapping == [](C11_Results) /\ [][C11_Pure]_vars

\* a button index beyond 3 was mapped in 6-column mode and landed on column 4
C11_Witness ==
    /\ lane_call # None
    /\ ~four_key
    /\ ~lane_call[1].is_fx
    /\ lane_call[1].idx > 3
    /\ lane_call[1].result = Some(4)

(***************************************************************************)
(* C12.  The Tempo Marker list of every chart, one with an empty body      *)
(* included, is non-empty and its first marker is at the global start      *)
(* time; the list grows only by one marker at a tempo line that changes    *)
(* the tempo, so a chart without such a line yields exactly one marker.    *)
(***************************************************************************)
C12_FirstMarker ==
    Running =>
        /\ timing_points # <<>>
        /\ timing_points[1].time = start_time

\* the marker list changes only at the start (to one marker) and at a line of
\* the collecting loop that changes current_bpm (by one marker appended)
C12_MarkerOnlyOnChange ==
    timing_points' # timing_points =>
        \/ pc = "start" /\ Len(timing_points') = 1
        \/ /\ pc = "collect"
           /\ current_bpm' # current_bpm
           /\ timing_points' = Append(timing_points, timing_points'[Len(timing_points')])

\* every step starts and ends in a state with the first marker in place and
\* changes the list only as said
C12_TempoMarkers ==
    [][C12_FirstMarker /\ C12_FirstMarker' /\ C12_MarkerOnlyOnChange]_vars

\* a conversion that read notes and never changed the tempo returned with the
\* single initial marker
C12_Witness ==
    /\ pc = "done"
    /\ i > 1
    /\ hit_objects # <<>>
    /\ current_bpm = 120
    /\ Len(timing_points) = 1
    /\ timing_points[1].time = start_time

(***************************************************************************)
(* C13.  After the final measure every column whose hold is still open is *)
(* force-closed by exactly one hold event, from the stored hold start to   *)
(* the final current time; columns without open hold get no event and the  *)
(* events emitted before stay as they are.                                 *)
(***************************************************************************)
C13_ForceClose ==
    (pc = "next" /\ pc' = "done") =>
        /\ SubSeq(hit_objects', 1, Len(hit_objects)) = hit_objects
        /\ \A lane \in 0..(num_lanes - 1) :
              OnLane(NewEvents, lane) =
                  IF hold_state[lane] # None
                  THEN <<HoldNote(lane_x_pos(lane), hold_state[lane][1], current_time)>>
                  ELSE <<>>
        /\ Len(NewEvents) =
              Cardinality({lane \in 0..(num_lanes - 1) : hold_state[lane] # None})

C13_OpenHoldsForceClosed == [][C13_ForceClose]_vars

\* two columns were force-closed at the final time of a chart that ran forward
C13_Witness ==
    /\ pc = "done"
    /\ beats_per_measure > 0
    /\ Len(hit_objects) >= 2
    /\ LET a == hit_objects[Len(hit_objects) - 1]
           b == hit_objects[Len(hit_objects)]
       IN  /\ IsHold(a) /\ IsHold(b)
           /\ a.x # b.x
           /\ HoldEnd(a) = current_time /\ HoldEnd(b) = current_time
           /\ a.time < current_time /\ b.time < current_time

(***************************************************************************)
(* C14.  parse_ksh_metadata reads only the lines before the first          *)
(* delimiter: it returns the index of the line after that delimiter, or    *)
(* the number of lines when there is none; the mapping holds exactly the   *)
(* keys of the key=value lines before the delimiter, each with the value   *)
(* of the last such line.                                                  *)
(***************************************************************************)
\* position (from 1) of the first delimiter of the file, 0 when there is none
C14_FirstDelimiter ==
    IF \E k \in 1..Len(md_lines) : Strip(md_lines[k]) = Delimiter
    THEN CHOOSE k \in 1..Len(md_lines) :
             /\ Strip(md_lines[k]) = Delimiter
             /\ \A j \in 1..(k - 1) : Strip(md_lines[j]) # Delimiter
    ELSE 0

\* number of lines before the first delimiter
C14_HeaderLen ==
    IF C14_FirstDelimiter = 0 THEN Len(md_lines) ELSE C14_FirstDelimiter - 1

\* positions of the key=value lines before the first delimiter
C14_Entries == { k \in 1..C14_HeaderLen : IsMetaLine(Strip(md_lines[k])) }

\* the last of them that carries key
C14_LastWith(key) ==
    CHOOSE k \in C14_Entries :
        /\ MetaKey(Strip(md_lines[k])) = key
        /\ \A j \in C14_Entries : MetaKey(Strip(md_lines[j])) = key => j <= k

C14_MetadataScan ==
    /\ md_i <= C14_HeaderLen
    /\ md_ret # None =>
          /\ md_ret[1][2] = (IF C14_FirstDelimiter = 0 THEN Len(md_lines)
                             ELSE C14_FirstDelimiter)
          /\ DOMAIN md_ret[1][1] = { MetaKey(Strip(md_lines[k])) : k \in C14_Entries }
          /\ \A key \in DOMAIN md_ret[1][1] :
                md_ret[1][1][key] = MetaValue(Strip(md_lines[C14_LastWith(key)]))

\* 'o=1', ' o = 2', then the delimiter: the mapping has o -> 2 and the body
\* starts at index 3
C14_Witness ==
    /\ md_ret # None
    /\ md_lines = << <<"o", "=", "1">>, <<" ", "o", " ", "=", " ", "2">>,
                     <<"-", "-", " ">> >>
    /\ md_ret[1][2] = 3
    /\ DOMAIN md_ret[1][1] = { <<"o">> }
    /\ md_ret[1][1][<<"o">>] = <<"2">>

(***************************************************************************)
(* C15.  In parse_ksh_metadata a malformed header line (no '=', or an      *)
(* empty key before the first '=') adds no entry to the mapping and does   *)
(* not stop the scan.                                                      *)
(***************************************************************************)
\* the line the scan is at has no '=' or nothing but blanks before its first '='
C15_Malformed ==
    LET line == Strip(md_lines[md_i + 1])
    IN  \/ ~Contains(line, "=")
        \/ Strip(SubSeq(line, 1, IndexOf(line, "=") - 1)) = <<>>

C15_MalformedSkipped ==
    [][(Scanning /\ C15_Malformed) =>
          /\ md_meta' = md_meta
          /\ md_i' = md_i + 1
          /\ md_ret' = None]_vars

(***************************************************************************)
(* C16.  Every measure without note-data lines (one with no lines at all   *)
(* between two delimiters and one with only control lines included)        *)
(* advances current_time by exactly one measure duration and emits no      *)
(* event.  Checked on the measures that a delimiter ends; either the tempo *)
(* and beats at the measure's entry or those at its end count as its       *)
(* duration.                                                               *)
(***************************************************************************)
C16_Advance ==
    (pc = "process" /\ note_lines = <<>> /\ ~at_end) =>
        /\ \/ current_time' =
                  current_time + MeasureDuration(current_bpm, beats_per_measure)
           \/ current_time' =
                  current_time + MeasureDuration(measure_bpm, measure_beats)
        /\ hit_objects' = hit_objects

C16_EmptyMeasureAdvances == [][C16_Advance]_vars

(***************************************************************************)
(* C17.  When a measure without note-data lines contains a tempo or        *)
(* time-signature line, current_time advances for that measure by the      *)
(* duration computed from the tempo and beats per measure in effect when   *)
(* the measure was entered.  Checked on the measures for which the code    *)
(* advances the time at all (see C16).                                     *)
(***************************************************************************)
C17_Advance ==
    (/\ pc = "process"
     /\ measure_lines # <<>>
     /\ note_lines = <<>>
     /\ (current_bpm # measure_bpm \/ beats_per_measure # measure_beats)) =>
        current_time' = current_time + MeasureDuration(measure_bpm, measure_beats)

C17_EmptyMeasureUsesEntryTempo == [][C17_Advance]_vars

(***************************************************************************)
(* C18.  A tempo or time-signature change partway through a measure takes  *)
(* effect from that line onward only: the note-data lines that precede the *)
(* first such change inside the measure carry the times they would have    *)
(* without it, computed with the tempo and beats per measure of the        *)
(* measure's entry.                                                        *)
(***************************************************************************)
\* the time of the line about to be processed, had the measure kept the tempo
\* and beats per measure it was entered with
C18_TimeWithoutChange ==
    LineTime(measure_start_time, line_idx,
             MeasureDuration(measure_bpm, measure_beats), Len(note_lines))

\* every time the step writes is t: the taps, the ends of the holds it closes
\* and the starts of the holds it opens
C18_StepWritesTime(t) ==
    /\ \A k \in 1..Len(NewEvents) :
          /\ IsTap(NewEvents[k]) => NewEvents[k].time = t
          /\ IsHold(NewEvents[k]) => HoldEnd(NewEvents[k]) = t
    /\ \A lane \in DOMAIN hold_state :
          (hold_state'[lane] # hold_state[lane] /\ hold_state'[lane] # None)
              => hold_state'[lane] = Some(t)

C18_PrecedingLine ==
    (AtLine /\ change_at # None /\ line_idx < change_at[1]) =>
        C18_StepWritesTime(C18_TimeWithoutChange)

C18_ChangeFromLineOnward == [][C18_PrecedingLine]_vars

(***************************************************************************)
(* C19.  A tap character (button '1', or effect '2' in 6-column mode) on a *)
(* column with an open hold closes the hold first: the hold event, from    *)
(* the stored start to the line time, is appended immediately before the   *)
(* tap at the line time, and the column's hold state is None afterwards.   *)
(***************************************************************************)
\* the step appends, for column lane, the hold event and right after it the tap
C19_HoldThenTap(lane) ==
    LET hold == HoldNote(lane_x_pos(lane), hold_state[lane][1], CurTime)
        tap  == NormalNote(lane_x_pos(lane), CurTime)
    IN  /\ OnLane(NewEvents, lane) = <<hold, tap>>
        /\ \E j \in 1..(Len(NewEvents) - 1) :
              NewEvents[j] = hold /\ NewEvents[j + 1] = tap
        /\ hold_state'[lane] = None

C19_LineStep ==
    AtLine =>
        /\ \A k \in BtPositions :
              (BtChar(k) = "1" /\ hold_state[BtLane(k)] # None)
                  => C19_HoldThenTap(BtLane(k))
        /\ ~four_key =>
              \A k \in FxPositions :
                  (FxChar(k) = "2" /\ hold_state[FxLane(k)] # None)
                      => C19_HoldThenTap(FxLane(k))

C19_TapClosesHoldFirst == [][C19_LineStep]_vars

\* the last two events are a hold and, right after it, a tap on the same column
\* at the time the hold ends
C19_Witness ==
    /\ Running
    /\ beats_per_measure > 0
    /\ Len(hit_objects) >= 2
    /\ LET a == hit_objects[Len(hit_objects) - 1]
           b == hit_objects[Len(hit_objects)]
       IN  /\ IsHold(a) /\ IsTap(b)
           /\ a.x = b.x
           /\ HoldEnd(a) = b.time
           /\ a.time < b.time
    /\ \A lane \in DOMAIN hold_state : hold_state[lane] = None

(***************************************************************************)
(* C20.  At the boundary of every measure with note-data lines that is     *)
(* followed by another measure with a note-data line,                      *)
(* check_cross_measure_holds is invoked with the next measure's first      *)
(* note-data line before any line of the next measure is processed: when   *)
(* the first line of such a next measure is about to be processed, the     *)
(* measure before it was processed with a next_measure_data that holds     *)
(* that line.                                                              *)
(***************************************************************************)
C20_ResolverInvoked ==
    (pc = "process" /\ prev_had_notes /\ note_lines # <<>> /\ line_idx = 0) =>
        /\ process_measure_next_data # None
        /\ SelectSeq(process_measure_next_data, IsNoteLine) # <<>>
        /\ SelectSeq(process_measure_next_data, IsNoteLine)[1] = note_lines[1]

(***************************************************************************)
(* C21.  The hold state machine of every chart and every column: each      *)
(* opening of a hold is matched by exactly one hold event with that start  *)
(* time, the hold events of one column do not overlap (each starts at or   *)
(* after the end of the one emitted before it on that column), and no tap  *)
(* of a column lies strictly between the start and the end of a hold event *)
(* of the same column.                                                     *)
(***************************************************************************)
\* a hold event is emitted only for the hold that is open on its column, with
\* the stored start, and a column whose open hold goes away gets exactly one
C21_Matched ==
    Running =>
        \A lane \in DOMAIN hold_state :
            LET holds == SelectSeq(OnLane(NewEvents, lane), IsHold)
            IN  IF hold_state[lane] # None /\ hold_state'[lane] # hold_state[lane]
                THEN /\ Len(holds) = 1
                     /\ holds[1].time = hold_state[lane][1]
                ELSE holds = <<>>

\* when the conversion returns no opened hold is left without its event
C21_NoneLeftOpen ==
    pc = "done" => \A lane \in DOMAIN hold_state : hold_state[lane] = None

C21_NonOverlapping ==
    \A j, k \in 1..Len(hit_objects) :
        (/\ j < k
         /\ IsHold(hit_objects[j]) /\ IsHold(hit_objects[k])
         /\ hit_objects[j].x = hit_objects[k].x)
            => hit_objects[k].time >= HoldEnd(hit_objects[j])

C21_NoTapInsideHold ==
    \A j, k \in 1..Len(hit_objects) :
        (/\ IsTap(hit_objects[j]) /\ IsHold(hit_objects[k])
         /\ hit_objects[j].x = hit_objects[k].x)
            => ~(/\ hit_objects[k].time < hit_objects[j].time
                 /\ hit_objects[j].time < HoldEnd(hit_objects[k]))

C21_HoldStateMachine ==
    [][/\ C21_Matched
       /\ C21_NoneLeftOpen'
       /\ C21_NonOverlapping'
       /\ C21_NoTapInsideHold']_vars

(***************************************************************************)
(* C22.  lane_x_pos round-trips with the column decoding of the output     *)
(* format: for 4 and for 6 columns and every column c of the layout,       *)
(* x = round(c * (512 / n) + (512 / n) / 2) satisfies                      *)
(* floor(x * n / 512) = c, lies in 0 .. 511, and differs from the x of     *)
(* every other column.                                                     *)
(***************************************************************************)
C22_RoundTrip ==
    x_call # None =>
        LET c == x_call[1].lane_idx
            x == x_call[1].x
        IN  /\ c \in 0..(num_lanes - 1)
            \* x is the integer nearest to (2c + 1) * 256 / n
            /\ 2 * num_lanes * x - (2 * c + 1) * 512 \in (0 - num_lanes)..num_lanes
            /\ (x * num_lanes) \div 512 = c
            /\ x \in 0..511
            /\ \A other \in 0..(num_lanes - 1) : other # c => lane_x_pos(other) # x

\* the last column of the 6-column layout got x = 469
C22_Witness ==
    /\ x_call # None
    /\ ~four_key
    /\ x_call[1].lane_idx = 5
    /\ x_call[1].x = 469

====
